---------------------------- MODULE Spec2Model ----------------------------
(***************************************************************************)
(* A model of cheerp's boundary helpers:                                   *)
(*   - cheerp/jshelper.h : Normalize, IsCharPointer, IsConstReference,     *)
(*     CanCast / CanCastImpl / CanCastHelper, clientCast                   *)
(*   - cheerp/function.h : _Function<F> and its bases                      *)
(*   - cheerp/coroutine.h: promise_base, promise_awaiter, return_value     *)
(*                                                                         *)
(* A C++ type is a record [b |-> base, w |-> wrappers]: `b` is the         *)
(* innermost type and `w` the wrappers applied to it, innermost first      *)
(* ("const", "volatile", "ptr", "arr", "lref", "rref").                    *)
(* `const char* const&` is [b |-> char, w |-> <<const, ptr, const, lref>>].*)
(* A base is [k |-> kind, n |-> name, args |-> template arguments]; the    *)
(* function type R(P1, P2) has kind "fn" and args <<R, P1, P2>>.           *)
(***************************************************************************)
EXTENDS Integers, Sequences, FiniteSets, TLC

VARIABLES
    \* ---- Normalize (type normalizer) ----
    normIn,      \* the type being built by wrapping a base type
    normOut1,    \* Normalize<normIn>, or NoType before it is computed
    normOut2,    \* Normalize<Normalize<normIn>>, or NoType
    \* ---- CanCast (compatibility oracle) ----
    castFrom,    \* the From argument of the instantiation
    castTo,      \* the To argument
    castRes,     \* "none", or what CanCast<castFrom, castTo> came to
    \* ---- clientCast (argument adapter) ----
    adArg,       \* the argument expression of the boundary call
    adOut,       \* NoOut, or what clientCast returned for adArg
    strHeap,     \* contents of the String wrappers constructed so far
    adCalls,     \* number of arguments adapted so far
    \* ---- coroutine bridge ----
    js,          \* the foreign runtime: promises and the microtask queue
    co,          \* the routine's coroutine frame
    awaiters,    \* the awaiters the routine constructed, in order
    got,         \* what each await expression evaluated to
    caller,      \* the caller's synchronous section
    inTask,      \* a microtask job is on the stack
    plan,        \* the foreign futures the routine body awaits, in order
    retVal       \* the operand of the routine's co_return

normVars == <<normIn, normOut1, normOut2>>

castVars == <<castFrom, castTo, castRes>>

adaptVars == <<adArg, adOut, strHeap, adCalls>>

asyncVars == <<js, co, awaiters, got, caller, inTask, plan, retVal>>

vars == <<normIn, normOut1, normOut2, castFrom, castTo, castRes,
          adArg, adOut, strHeap, adCalls,
          js, co, awaiters, got, caller, inTask, plan, retVal>>

-----------------------------------------------------------------------------
(* Type constructors *)

Base(k, n, args) == [k |-> k, n |-> n, args |-> args]
Ty(b, w) == [b |-> b, w |-> w]

NoType == Ty(Base("none", "", <<>>), <<>>)

VoidB == Base("void", "void", <<>>)
Arith(n) == Base("arith", n, <<>>)
Class(n) == Base("class", n, <<>>)
Tmpl(n, args) == Base("tmpl", n, args)
FnType(ret, params) == Base("fn", "", <<ret>> \o params)

\* No argument, and no result of clientCast yet
NoArg == [decl |-> NoType, cat |-> "none", addr |-> "none", val |-> "none",
          text |-> ""]
NoOut == [how |-> "none", type |-> NoType, ref |-> "none", val |-> "none",
          str |-> 0, heapBefore |-> 0]

\* Each subsystem is checked on its own; the others stay parked.
ParkNorm == normIn = NoType /\ normOut1 = NoType /\ normOut2 = NoType
ParkCast == castFrom = NoType /\ castTo = NoType /\ castRes = "none"
ParkAsync ==
    /\ js = <<>> /\ co = <<>> /\ awaiters = <<>> /\ got = <<>>
    /\ caller = <<>> /\ inTask = FALSE /\ plan = <<>> /\ retVal = ""
ParkAdapt == adArg = NoArg /\ adOut = NoOut /\ strHeap = <<>> /\ adCalls = 0

Front(s) == SubSeq(s, 1, Len(s) - 1)
Last(s) == s[Len(s)]

-----------------------------------------------------------------------------
(* <type_traits> as they act on the wrapper list *)

IsCv(x) == x \in {"const", "volatile"}

\* The cv-qualifiers at the top of a type.  The qualifiers of an array type
\* are those of its element type.
RECURSIVE TopCv(_)
TopCv(w) ==
    IF Len(w) = 0 THEN {}
    ELSE IF Last(w) = "arr" THEN TopCv(Front(w))
    ELSE IF IsCv(Last(w)) THEN {Last(w)} \cup TopCv(Front(w))
    ELSE {}

\* std::remove_cv_t
RECURSIVE remove_cv(_)
remove_cv(w) ==
    IF Len(w) = 0 THEN w
    ELSE IF Last(w) = "arr" THEN Append(remove_cv(Front(w)), "arr")
    ELSE IF IsCv(Last(w)) THEN remove_cv(Front(w))
    ELSE w

\* std::remove_reference_t
remove_reference(w) ==
    IF Len(w) > 0 /\ Last(w) \in {"lref", "rref"} THEN Front(w) ELSE w

is_reference(w) == Len(w) > 0 /\ Last(w) \in {"lref", "rref"}

is_array(w) == Len(w) > 0 /\ Last(w) = "arr"

\* std::is_pointer_v: a possibly cv-qualified object pointer
is_pointer(w) ==
    /\ ~is_array(w)
    /\ LET s == remove_cv(w) IN Len(s) > 0 /\ Last(s) = "ptr"

\* std::remove_pointer_t: T*, T* const, T* volatile, T* const volatile -> T
remove_pointer(w) ==
    IF is_pointer(w) THEN Front(remove_cv(w)) ELSE w

\* std::is_const_v
is_const(w) == ~is_reference(w) /\ "const" \in TopCv(w)

\* std::decay_t: references dropped, arrays become element pointers,
\* otherwise top-level cv dropped
decay(w) ==
    LET u == remove_reference(w) IN
    IF is_array(u) THEN Append(Front(u), "ptr") ELSE remove_cv(u)

\* A plausible slip: the qualifiers are removed before the pointer instead
\* of after it, so the pointee's own qualifiers survive.
NormalizeCvFirst(T) ==
    Ty(T.b, remove_pointer(remove_cv(remove_reference(T.w))))

\* jshelper.h:26-27
Normalize(T) ==
    Ty(T.b, remove_cv(remove_pointer(remove_reference(T.w))))

-----------------------------------------------------------------------------
(* The compatibility oracle: CanCast, CanCastImpl, CanCastHelper           *)
(*                                                                         *)
(* An instantiation yields "true" or "false", or is "ill-formed" when the  *)
(* compiler finds no most specialized CanCastHelper among those matching.  *)
(* Every operand of a fold or of || and && is instantiated, whatever the   *)
(* value of the operands before it, so one ill-formed operand makes the    *)
(* whole instantiation ill-formed.                                         *)

Bool(b) == IF b THEN "true" ELSE "false"

\* (e1 && ...): every operand instantiated
AndAll(rs) ==
    IF \E i \in DOMAIN rs : rs[i] = "ill-formed" THEN "ill-formed"
    ELSE Bool(\A i \in DOMAIN rs : rs[i] = "true")

\* (e1 || ...): every operand instantiated
OrAll(rs) ==
    IF \E i \in DOMAIN rs : rs[i] = "ill-formed" THEN "ill-formed"
    ELSE Bool(\E i \in DOMAIN rs : rs[i] = "true")

AnyT == Ty(Class("_Any"), <<>>)

is_arithmetic(T) == T.b.k = "arith" /\ remove_cv(T.w) = <<>>
is_void(T) == T.b.k = "void" /\ remove_cv(T.w) = <<>>
is_class(T) == T.b.k \in {"class", "tmpl"} /\ remove_cv(T.w) = <<>>

\* The classes the oracle is asked about.  _Function<F> derives from
\* Function and Object (function.h:8); Dog derives from Animal, and Array
\* from TArray<_Any*>, as declared by the including program.
DirectBases(b) ==
    IF b.k = "tmpl" /\ b.n = "_Function"
        THEN {Class("Function"), Class("Object")}
    ELSE IF b = Class("Dog") THEN {Class("Animal")}
    ELSE IF b = Class("Array")
        THEN {Tmpl("TArray", <<Ty(Class("_Any"), <<"ptr">>)>>)}
    ELSE {}

RECURSIVE Ancestors(_)
Ancestors(b) ==
    {b} \cup UNION {Ancestors(a) : a \in DirectBases(b)}

\* std::is_base_of_v<B, D>: non-union class types, D is B or derives from it
is_base_of(B, D) == is_class(B) /\ is_class(D) /\ B.b \in Ancestors(D.b)

IsTmpl(T) == T.w = <<>> /\ T.b.k = "tmpl"
IsUnion(T) == IsTmpl(T) /\ T.b.n = "_Union"
IsFunc(T) ==
    /\ IsTmpl(T) /\ T.b.n = "_Function" /\ Len(T.b.args) = 1
    /\ T.b.args[1].w = <<>> /\ T.b.args[1].b.k = "fn"

\* Return type and parameter list of _Function<R(P...)>
FuncRet(T) == T.b.args[1].b.args[1]
FuncParams(T) ==
    LET a == T.b.args[1].b.args IN SubSeq(a, 2, Len(a))
FuncT(ret, params) == Ty(Tmpl("_Function", <<Ty(FnType(ret, params), <<>>)>>), <<>>)

\* The partial specializations of CanCastHelper that match <From, To>
\* (jshelper.h:48-84).
Matching(From, To) ==
    {s \in {"tmplTo", "sameTmpl", "func0", "funcN", "unionUnion",
            "unionFrom", "unionTo"} :
        CASE s = "tmplTo" -> IsTmpl(To)
          [] s = "sameTmpl" -> IsTmpl(From) /\ IsTmpl(To) /\ From.b.n = To.b.n
          [] s = "func0" ->
                IsFunc(From) /\ IsFunc(To) /\ Len(FuncParams(From)) = 0
          [] s = "funcN" ->
                /\ IsFunc(From) /\ IsFunc(To)
                /\ Len(FuncParams(From)) > 0 /\ Len(FuncParams(To)) > 0
          [] s = "unionUnion" -> IsUnion(From) /\ IsUnion(To)
          [] s = "unionFrom" -> IsUnion(From)
          [] s = "unionTo" -> IsUnion(To)}

\* <<s, t>>: specialization s is more specialized than t (its arguments can
\* be deduced from t's pattern, and not the other way round).  "unionFrom"
\* <_Union<From...>, To> and "tmplTo" <From, To<T...>> are not ordered.
MoreSpecialized ==
    {<<"sameTmpl", "tmplTo">>,
     <<"func0", "tmplTo">>, <<"func0", "sameTmpl">>,
     <<"funcN", "tmplTo">>, <<"funcN", "sameTmpl">>,
     <<"unionTo", "tmplTo">>,
     <<"unionUnion", "tmplTo">>, <<"unionUnion", "sameTmpl">>,
     <<"unionUnion", "unionFrom">>, <<"unionUnion", "unionTo">>}

\* The specializations the compiler can select: those more specialized than
\* every other matching one.  None among several matching: ambiguous.
Selected(From, To) ==
    LET M == Matching(From, To) IN
    {s \in M : \A t \in M \ {s} : <<s, t>> \in MoreSpecialized}

RECURSIVE CanCast(_, _), CanCastImpl(_, _), CanCastHelper(_, _)

\* CanCastHelper<From, To<T...>> (jshelper.h:48-60).  test((From*) nullptr)
\* selects test(To<U...>*) when From is, or derives from, exactly one
\* To<U...>, and test(void*) otherwise.
HelperTmplTo(From, To) ==
    LET Us == {a \in (IF is_class(From) THEN Ancestors(From.b) ELSE {}) :
                  a.k = "tmpl" /\ a.n = To.b.n}
    IN IF Cardinality(Us) = 1
       THEN CanCast(Ty(CHOOSE a \in Us : TRUE, <<"ptr">>), Ty(To.b, <<"ptr">>))
       ELSE "false"

\* CanCastHelper<Class<From...>, Class<To...>> (jshelper.h:61-64).  Packs of
\* different lengths cannot be folded together.
HelperSameTmpl(From, To) ==
    IF Len(From.b.args) # Len(To.b.args) THEN "ill-formed"
    ELSE AndAll([i \in DOMAIN From.b.args |->
                    CanCast(From.b.args[i], To.b.args[i])])

\* CanCastHelper<_Function<From()>, _Function<To(Args...)>> (jshelper.h:65-68)
HelperFunc0(From, To) == CanCast(FuncRet(From), FuncRet(To))

\* A plausible slip: the parameter pair is compared in the direction of the
\* return type.
HelperFuncNCovariant(From, To) ==
    AndAll(<<CanCast(FuncParams(From)[1], FuncParams(To)[1]),
             CanCastHelper(FuncT(FuncRet(From), Tail(FuncParams(From))),
                           FuncT(FuncRet(To), Tail(FuncParams(To))))>>)

\* CanCastHelper<_Function<From(FromFirstArg, FromArgs...)>,
\*               _Function<To(ToFirstArg, ToArgs...)>> (jshelper.h:69-72)
HelperFuncN(From, To) ==
    AndAll(<<CanCast(FuncParams(To)[1], FuncParams(From)[1]),
             CanCastHelper(FuncT(FuncRet(From), Tail(FuncParams(From))),
                           FuncT(FuncRet(To), Tail(FuncParams(To))))>>)

\* CanCastHelper<_Union<From...>, _Union<To...>> (jshelper.h:73-76)
HelperUnionUnion(From, To) ==
    AndAll([i \in DOMAIN From.b.args |-> CanCast(From.b.args[i], To)])

\* CanCastHelper<_Union<From...>, To> (jshelper.h:77-80)
HelperUnionFrom(From, To) ==
    AndAll([i \in DOMAIN From.b.args |-> CanCast(From.b.args[i], To)])

\* A plausible slip: the fold over the destination variants is && for ||.
HelperUnionToAll(From, To) ==
    AndAll([i \in DOMAIN To.b.args |-> CanCast(From, To.b.args[i])])

\* CanCastHelper<From, _Union<To...>> (jshelper.h:81-84)
HelperUnionTo(From, To) ==
    OrAll([i \in DOMAIN To.b.args |-> CanCast(From, To.b.args[i])])

\* CanCastHelper<From, To>::value: the primary template (jshelper.h:32-35)
\* when no specialization matches, otherwise the most specialized one.
CanCastHelper(From, To) ==
    LET M == Matching(From, To)
        S == Selected(From, To)
    IN
    IF M = {} THEN "false"
    ELSE IF S = {} THEN "ill-formed"
    ELSE IF "unionUnion" \in S THEN HelperUnionUnion(From, To)
    ELSE IF "unionFrom" \in S THEN HelperUnionFrom(From, To)
    ELSE IF "unionTo" \in S THEN HelperUnionTo(From, To)
    ELSE IF "func0" \in S THEN HelperFunc0(From, To)
    ELSE IF "funcN" \in S THEN HelperFuncN(From, To)
    ELSE IF "sameTmpl" \in S THEN HelperSameTmpl(From, To)
    ELSE HelperTmplTo(From, To)

\* A plausible slip: the is_same_v<To, _Any> disjunct is left out.
CanCastImplNoAnyTo(From, To) ==
    IF is_arithmetic(From) /\ is_arithmetic(To) THEN "true"
    ELSE LET h == CanCastHelper(From, To) IN
         IF h = "ill-formed" THEN h
         ELSE Bool(\/ is_void(To) \/ is_void(From)
                   \/ From = AnyT
                   \/ is_base_of(To, From)
                   \/ h = "true")

\* CanCastImpl<From, To>::value (jshelper.h:36-43).  Arithmetic types are
\* all convertible to one another (std::is_convertible_v).
CanCastImpl(From, To) ==
    IF is_arithmetic(From) /\ is_arithmetic(To) THEN "true"
    ELSE LET h == CanCastHelper(From, To) IN
         IF h = "ill-formed" THEN h
         ELSE Bool(\/ is_void(To) \/ is_void(From)
                   \/ From = AnyT \/ To = AnyT
                   \/ is_base_of(To, From)
                   \/ h = "true")

\* CanCast<From, To> (jshelper.h:44-45)
CanCast(From, To) == CanCastImpl(Normalize(From), Normalize(To))

-----------------------------------------------------------------------------
(* Building a type by wrapping: T*, const T, volatile T, T&, T&& *)

MaxWrap == 4

\* const T / volatile T: no effect on a reference or an already qualified type
AddCv(w, q) ==
    IF is_reference(w) \/ q \in TopCv(w) THEN w
    ELSE IF q = "const" /\ "volatile" \in TopCv(w)
         THEN Append(Append(Front(w), "const"), "volatile")
         ELSE Append(w, q)

NormBases == {Arith("int"), Arith("char"), Class("String")}

InitNorm ==
    /\ normIn \in {Ty(b, <<>>) : b \in NormBases}
    /\ normOut1 = NoType
    /\ normOut2 = NoType
    /\ ParkCast /\ ParkAdapt /\ ParkAsync

Building == normOut1 = NoType

WrapPointer ==
    /\ Building /\ Len(normIn.w) < MaxWrap
    /\ ~is_reference(normIn.w)
    /\ normIn' = Ty(normIn.b, Append(normIn.w, "ptr"))
    /\ UNCHANGED <<normOut1, normOut2>>
    /\ UNCHANGED <<castVars, adaptVars, asyncVars>>

WrapConst ==
    /\ Building /\ Len(normIn.w) < MaxWrap
    /\ AddCv(normIn.w, "const") # normIn.w
    /\ normIn' = Ty(normIn.b, AddCv(normIn.w, "const"))
    /\ UNCHANGED <<normOut1, normOut2>>
    /\ UNCHANGED <<castVars, adaptVars, asyncVars>>

WrapVolatile ==
    /\ Building /\ Len(normIn.w) < MaxWrap
    /\ AddCv(normIn.w, "volatile") # normIn.w
    /\ normIn' = Ty(normIn.b, AddCv(normIn.w, "volatile"))
    /\ UNCHANGED <<normOut1, normOut2>>
    /\ UNCHANGED <<castVars, adaptVars, asyncVars>>

WrapLRef ==
    /\ Building /\ Len(normIn.w) < MaxWrap
    /\ ~is_reference(normIn.w)
    /\ normIn' = Ty(normIn.b, Append(normIn.w, "lref"))
    /\ UNCHANGED <<normOut1, normOut2>>
    /\ UNCHANGED <<castVars, adaptVars, asyncVars>>

WrapRRef ==
    /\ Building /\ Len(normIn.w) < MaxWrap
    /\ ~is_reference(normIn.w)
    /\ normIn' = Ty(normIn.b, Append(normIn.w, "rref"))
    /\ UNCHANGED <<normOut1, normOut2>>
    /\ UNCHANGED <<castVars, adaptVars, asyncVars>>

\* Normalize<T> and Normalize<Normalize<T>> are instantiated
ApplyNormalize ==
    /\ Building
    /\ normOut1' = Normalize(normIn)
    /\ normOut2' = Normalize(Normalize(normIn))
    /\ UNCHANGED normIn
    /\ UNCHANGED <<castVars, adaptVars, asyncVars>>

NextNorm ==
    \/ WrapPointer
    \/ WrapConst
    \/ WrapVolatile
    \/ WrapLRef
    \/ WrapRRef
    \/ ApplyNormalize

SpecNorm ==
    InitNorm /\ [][NextNorm]_vars

\* Number of pointer levels of a type
RECURSIVE PtrDepth(_)
PtrDepth(w) ==
    IF Len(w) = 0 THEN 0
    ELSE (IF Last(w) = "ptr" THEN 1 ELSE 0) + PtrDepth(Front(w))

\* C7 (as claimed): Normalize is idempotent on every type built from a base
\* type by pointer, reference and const/volatile wrappers, several levels of
\* pointer included.
C7_NormalizeIdempotentAll ==
    normOut1 # NoType => normOut2 = normOut1

\* C7 (amended): Normalize is idempotent on every such type that has at most
\* one level of pointer.
C7_NormalizeIdempotentOnePtr ==
    (normOut1 # NoType /\ PtrDepth(normIn.w) <= 1) => normOut2 = normOut1

\* C7 witness: a const pointer to const, bound by reference, was normalized.
C7_Witness ==
    /\ normOut1 # NoType
    /\ normIn.w = <<"const", "ptr", "const", "lref">>
    /\ normOut2 = normOut1

-----------------------------------------------------------------------------
(* Instantiating CanCast on the types of a boundary call *)

MaxArity == 2

PtrTo(b) == Ty(b, <<"ptr">>)

VoidT == Ty(VoidB, <<>>)
IntT == Ty(Arith("int"), <<>>)
DoubleT == Ty(Arith("double"), <<>>)
AnyP == PtrTo(Class("_Any"))
ObjectP == PtrTo(Class("Object"))
StringP == PtrTo(Class("String"))
AnimalP == PtrTo(Class("Animal"))
DogP == PtrTo(Class("Dog"))

UnionP(vs) == PtrTo(Tmpl("_Union", vs))
TArrayP(e) == PtrTo(Tmpl("TArray", <<e>>))
FunctionP(ret, params) == PtrTo(Tmpl("_Function", <<Ty(FnType(ret, params), <<>>)>>))

\* Types as the bindings write them: client objects by pointer, numbers by
\* value.
Leaves == {VoidT, IntT, DoubleT, AnyP, ObjectP, StringP, AnimalP, DogP}

Variants == {StringP, ObjectP, DoubleT, DogP, AnyP}

Unions == {UnionP(<<a, b>>) : a \in Variants, b \in Variants}

Containers == {TArrayP(e) : e \in {StringP, ObjectP, AnyP, DoubleT}}

ParamLists ==
    UNION {[1..n -> {AnimalP, DogP}] : n \in 0..MaxArity}

Functions ==
    {FunctionP(r, ps) : r \in {VoidT, AnimalP, DogP}, ps \in ParamLists}

Nested ==
    {TArrayP(UnionP(<<StringP, DoubleT>>)),
     TArrayP(TArrayP(StringP)),
     UnionP(<<TArrayP(StringP), DoubleT>>),
     UnionP(<<UnionP(<<StringP, DoubleT>>), ObjectP>>),
     UnionP(<<StringP>>),
     UnionP(<<DogP, StringP, IntT>>),
     FunctionP(VoidT, <<UnionP(<<StringP, DoubleT>>)>>),
     FunctionP(VoidT, <<TArrayP(StringP)>>),
     FunctionP(UnionP(<<StringP, DoubleT>>), <<>>),
     PtrTo(Class("Array"))}

\* The same types under other pointer, reference and qualifier wrappings
Rewrapped ==
    {Ty(b, w) :
        b \in {Arith("int"), Class("String"), Class("_Any"),
               Tmpl("_Union", <<StringP, DoubleT>>)},
        w \in {<<>>, <<"const", "ptr">>, <<"ptr", "ptr">>, <<"const", "lref">>,
               <<"ptr", "const", "lref">>, <<"ptr", "const", "ptr", "rref">>}}

CastTypes == Leaves \cup Unions \cup Containers \cup Functions \cup Nested
                \cup Rewrapped

InitCast ==
    /\ castFrom \in CastTypes
    /\ castTo \in CastTypes
    /\ castRes = "none"
    /\ ParkNorm /\ ParkAdapt /\ ParkAsync

\* The compiler instantiates CanCast<castFrom, castTo>
InstantiateCanCast ==
    /\ castRes = "none"
    /\ castRes' = CanCast(castFrom, castTo)
    /\ UNCHANGED <<castFrom, castTo>>
    /\ UNCHANGED <<normVars, adaptVars, asyncVars>>

NextCast == InstantiateCanCast

SpecCast ==
    InitCast /\ [][NextCast]_vars

Instantiated == castRes # "none"
NFrom == Normalize(castFrom)
NTo == Normalize(castTo)

\* A type descriptor: a type written with at most one level of pointer, the
\* only wrapping Normalize removes completely.
IsDescriptor(T) == PtrDepth(T.w) <= 1

\* C4 (as claimed): for all type descriptors A, B and T, T itself a union
\* included, CanCast(T, Union(A, B)) = CanCast(T, A) || CanCast(T, B).
C4_UnionToAnyT ==
    (Instantiated /\ IsUnion(NTo) /\ IsDescriptor(castFrom)
        /\ IsDescriptor(castTo)) =>
        castRes = OrAll([i \in DOMAIN NTo.b.args |->
                            CanCast(castFrom, NTo.b.args[i])])

\* C4 (amended): for all type descriptors A, B and every type descriptor T
\* that is not itself a union,
\* CanCast(T, Union(A, B)) = CanCast(T, A) || CanCast(T, B).
C4_UnionToNonUnionT ==
    (Instantiated /\ IsUnion(NTo) /\ IsDescriptor(castFrom)
        /\ IsDescriptor(castTo) /\ ~IsUnion(NFrom)) =>
        castRes = OrAll([i \in DOMAIN NTo.b.args |->
                            CanCast(castFrom, NTo.b.args[i])])

\* C4 witness: a class was accepted by a union through its second variant
\* only.
C4_Witness ==
    /\ Instantiated
    /\ castFrom = DogP
    /\ castTo = UnionP(<<StringP, DogP>>)
    /\ CanCast(DogP, StringP) = "false"
    /\ castRes = "true"

\* C5 (as claimed): for all type descriptors A, B and T, CanCast(Union(A, B),
\* T) is defined and equals CanCast(A, T) && CanCast(B, T).
C5_UnionFromAllT ==
    (Instantiated /\ IsUnion(NFrom) /\ IsDescriptor(castFrom)
        /\ IsDescriptor(castTo)) =>
        /\ castRes # "ill-formed"
        /\ castRes = AndAll([i \in DOMAIN NFrom.b.args |->
                                CanCast(NFrom.b.args[i], castTo)])

\* The comparisons C6 names: the return types, each positional parameter
\* pair in the reverse direction, and the arities (a source function may take
\* fewer parameters than the destination passes, never more).
FunctionRule(F1, F2) ==
    LET P1 == FuncParams(F1)
        P2 == FuncParams(F2)
        n == IF Len(P1) < Len(P2) THEN Len(P1) ELSE Len(P2)
    IN AndAll(<<CanCast(FuncRet(F1), FuncRet(F2)), Bool(Len(P1) <= Len(P2))>>
              \o [i \in 1..n |-> CanCast(P2[i], P1[i])])

\* C6: CanCast between two function descriptors holds iff the return types
\* are compatible covariantly, every positional parameter pair is compatible
\* contravariantly and the arities reconcile; Function(Dog, [Animal]) casts
\* to Function(Animal, [Dog]) and not the other way round.
C6_FunctionVariance ==
    (Instantiated /\ IsFunc(NFrom) /\ IsFunc(NTo)) =>
        /\ castRes = FunctionRule(NFrom, NTo)
        /\ (castFrom = FunctionP(DogP, <<AnimalP>>)
                /\ castTo = FunctionP(AnimalP, <<DogP>>)) => castRes = "true"
        /\ (castFrom = FunctionP(AnimalP, <<DogP>>)
                /\ castTo = FunctionP(DogP, <<AnimalP>>)) => castRes = "false"

\* C6 witness: a function returning Dog and taking Animal was accepted as one
\* returning Animal and taking Dog.
C6_Witness ==
    /\ castFrom = FunctionP(DogP, <<AnimalP>>)
    /\ castTo = FunctionP(AnimalP, <<DogP>>)
    /\ castRes = "true"

\* C8: when either side normalizes to Any, CanCast is true, whatever the
\* shape and the wrapping of the other side.
C8_AnyBothWays ==
    (Instantiated /\ (NFrom = AnyT \/ NTo = AnyT)) => castRes = "true"

\* C8 witness: a union behind a reference to a const pointer was accepted as
\* Any.
C8_Witness ==
    /\ castFrom = Ty(Tmpl("_Union", <<StringP, DoubleT>>), <<"ptr", "const", "lref">>)
    /\ castTo = AnyP
    /\ castRes = "true"

-----------------------------------------------------------------------------
(* The argument adapter: clientCast *)

MaxCalls == 2

\* jshelper.h:28-29
IsCharPointer(T) ==
    /\ is_pointer(decay(T.w))
    /\ Ty(T.b, remove_cv(remove_pointer(decay(T.w)))) = Ty(Arith("char"), <<>>)

\* jshelper.h:30-31
IsConstReference(T) ==
    is_reference(T.w) /\ is_const(remove_reference(T.w))

\* An argument expression: its declared type (never a reference), its value
\* category, the address of the object it denotes, that object's value and,
\* for a character string, the characters.
Texts == {"hello", "hi"}

ArgDecls ==
    {Ty(b, w) :
        b \in {Arith("char"), Arith("unsigned char"), Arith("int"),
               Class("String")},
        w \in {<<>>, <<"const">>, <<"ptr">>, <<"const", "ptr">>,
               <<"ptr", "const">>, <<"const", "ptr", "const">>,
               <<"arr">>, <<"const", "arr">>, <<"ptr", "ptr">>}}

Args ==
    [decl : ArgDecls, cat : {"lvalue", "rvalue"}, addr : {"a1"},
     val : {"v1"}, text : Texts]

\* T as deduced for the forwarding reference `T&& value` (jshelper.h:160):
\* an lvalue of type X gives X&, an rvalue gives X.
DeducedT(arg) ==
    IF arg.cat = "lvalue" THEN Ty(arg.decl.b, Append(arg.decl.w, "lref"))
    ELSE arg.decl

\* The declared return type of clientCast (jshelper.h:160); T&& collapses to
\* T when T is an lvalue reference.
clientCastType(T) ==
    IF IsCharPointer(T) THEN StringP
    ELSE IF IsConstReference(T) THEN Ty(T.b, Append(remove_reference(T.w), "ptr"))
    ELSE IF is_reference(T.w) THEN T
    ELSE Ty(T.b, Append(T.w, "rref"))

\* makeString (declared at jshelper.h:157): a new String wrapper holding the
\* characters of str, appended to the heap.
makeString(heap, str) == Append(heap, str)

\* A plausible slip: the const-reference test comes before the char-pointer
\* test, so a string literal (a const array bound by reference) is passed by
\* address.
clientCastConstRefFirst(arg, heap) ==
    LET T == DeducedT(arg) IN
    IF IsConstReference(T) THEN
        [how |-> "address", type |-> clientCastType(T), ref |-> arg.addr,
         val |-> "none", str |-> 0, heap |-> heap]
    ELSE IF IsCharPointer(T) THEN
        [how |-> "makeString", type |-> clientCastType(T), ref |-> "none",
         val |-> "none", str |-> Len(heap) + 1,
         heap |-> makeString(heap, arg.text)]
    ELSE
        [how |-> "forward", type |-> clientCastType(T), ref |-> arg.addr,
         val |-> arg.val, str |-> 0, heap |-> heap]

\* clientCast (jshelper.h:158-167): what is returned, and the heap after the
\* call.  `ref` is the object the result points or refers to, `str` the
\* String wrapper returned by makeString.
clientCast(arg, heap) ==
    LET T == DeducedT(arg) IN
    IF IsCharPointer(T) THEN
        [how |-> "makeString", type |-> clientCastType(T), ref |-> "none",
         val |-> "none", str |-> Len(heap) + 1,
         heap |-> makeString(heap, arg.text)]
    ELSE IF IsConstReference(T) THEN
        [how |-> "address", type |-> clientCastType(T), ref |-> arg.addr,
         val |-> "none", str |-> 0, heap |-> heap]
    ELSE
        [how |-> "forward", type |-> clientCastType(T), ref |-> arg.addr,
         val |-> arg.val, str |-> 0, heap |-> heap]

InitAdapt ==
    /\ adArg \in Args
    /\ adOut = NoOut
    /\ strHeap = <<>>
    /\ adCalls = 0
    /\ ParkNorm /\ ParkCast /\ ParkAsync

\* The boundary call adapts its argument
ClientCast ==
    /\ adArg # NoArg /\ adOut = NoOut
    /\ LET r == clientCast(adArg, strHeap) IN
        /\ adOut' = [how |-> r.how, type |-> r.type, ref |-> r.ref,
                     val |-> r.val, str |-> r.str, heapBefore |-> Len(strHeap)]
        /\ strHeap' = r.heap
    /\ adCalls' = adCalls + 1
    /\ UNCHANGED adArg
    /\ UNCHANGED <<normVars, castVars, asyncVars>>

\* The caller goes on to the next argument
NextArgument ==
    /\ adOut # NoOut /\ adCalls < MaxCalls
    /\ adArg' \in Args
    /\ adOut' = NoOut
    /\ UNCHANGED <<strHeap, adCalls>>
    /\ UNCHANGED <<normVars, castVars, asyncVars>>

NextAdapt ==
    \/ ClientCast
    \/ NextArgument

SpecAdapt ==
    InitAdapt /\ [][NextAdapt]_vars

\* The argument is a (possibly qualified) pointer to, or array of, possibly
\* qualified char.
CharPointerShaped(arg) ==
    /\ arg.decl.b = Arith("char")
    /\ remove_cv(arg.decl.w) \in
          {<<"ptr">>, <<"const", "ptr">>, <<"arr">>, <<"const", "arr">>}

\* The argument is an lvalue of a const-qualified type, so the forwarding
\* reference binds it as a const reference.
BoundAsConstRef(arg) ==
    arg.cat = "lvalue" /\ "const" \in TopCv(arg.decl.w)

\* C10: a char-pointer argument becomes a newly constructed String with the
\* same content; otherwise a const-reference argument becomes the address of
\* the referenced object; every other argument is passed through unchanged,
\* and the address conversion is applied to const references only.
C10_ClientCastDispatch ==
    (adOut # NoOut) =>
        /\ CharPointerShaped(adArg) =>
              /\ adOut.how = "makeString"
              /\ adOut.type = StringP
              /\ adOut.str > adOut.heapBefore
              /\ adOut.str \in DOMAIN strHeap
              /\ strHeap[adOut.str] = adArg.text
        /\ (~CharPointerShaped(adArg) /\ BoundAsConstRef(adArg)) =>
              /\ adOut.how = "address"
              /\ adOut.ref = adArg.addr
              /\ adOut.type =
                    Ty(adArg.decl.b, Append(adArg.decl.w, "ptr"))
        /\ (~CharPointerShaped(adArg) /\ ~BoundAsConstRef(adArg)) =>
              /\ adOut.how = "forward"
              /\ adOut.ref = adArg.addr
              /\ adOut.val = adArg.val
        /\ adOut.how = "address" => BoundAsConstRef(adArg)

\* C10 witness: the literal "hello" was adapted as the second argument of a
\* call.
C10_Witness ==
    /\ adOut # NoOut
    /\ adArg.decl = Ty(Arith("char"), <<"const", "arr">>)
    /\ adArg.cat = "lvalue"
    /\ adArg.text = "hello"
    /\ adOut.how = "makeString"
    /\ adCalls = 2

-----------------------------------------------------------------------------
(* The future bridge: coroutine.h                                          *)
(*                                                                         *)
(* One routine returning a future is called from a synchronous section of  *)
(* its caller; its body awaits the foreign futures of `plan` in order and  *)
(* then returns retVal.  Everything runs on the one thread of the foreign  *)
(* runtime: the caller's section, then microtask jobs and host tasks.      *)

MaxAwaits == 2
CallerStmts == 2
MaxExtraResolves == 2

Foreign == {"p", "q"}          \* the foreign futures
VoidPromises == {"q"}          \* of these, the TPromise<void>
RetPromise == "ret"            \* the future the routine produces
Promises == Foreign \cup {RetPromise}

Values == {"x", "y"}
Undefined == "undefined"
SettleValues(f) == IF f \in VoidPromises THEN {Undefined} ELSE Values

Plans == UNION {[1..n -> Foreign] : n \in 0..MaxAwaits}

(* The foreign future: constructed pending, settled at most once, its      *)
(* fulfilment callbacks run as microtask jobs, each once.  `calls`, `first`*)
(* and `last` record the invocations of each future's resolve function.    *)

NewPromise(J, p) == [J EXCEPT !.st[p] = "pending"]

\* A settle that overwrites: a later resolve replaces the settled value.
PromiseResolveOverwrite(J, p, v) ==
    LET J1 == [J EXCEPT !.calls[p] = @ + 1, !.last[p] = v,
                        !.first[p] = IF J.calls[p] = 0 THEN v ELSE @]
    IN [J1 EXCEPT !.st[p] = "fulfilled", !.val[p] = v,
                  !.mq = @ \o [i \in 1..Len(J.re[p]) |->
                                  [aw |-> J.re[p][i], val |-> v]],
                  !.re[p] = <<>>]

\* resolve(v): fulfils a pending future and queues a job for each registered
\* callback; a no-op on a settled future.
PromiseResolve(J, p, v) ==
    LET J1 == [J EXCEPT !.calls[p] = @ + 1, !.last[p] = v,
                        !.first[p] = IF J.calls[p] = 0 THEN v ELSE @]
    IN IF J.st[p] # "pending" THEN J1
       ELSE [J1 EXCEPT !.st[p] = "fulfilled", !.val[p] = v,
                       !.mq = @ \o [i \in 1..Len(J.re[p]) |->
                                       [aw |-> J.re[p][i], val |-> v]],
                       !.re[p] = <<>>]

\* reject: the success callbacks of a rejected future are never run.
PromiseReject(J, p) ==
    IF J.st[p] # "pending" THEN J
    ELSE [J EXCEPT !.st[p] = "rejected", !.re[p] = <<>>]

\* then(cb) with a success callback only: registered on a pending future,
\* queued as a job on a fulfilled one, dropped on a rejected one.
PromiseThen(J, p, cb) ==
    IF J.st[p] = "pending" THEN [J EXCEPT !.re[p] = Append(@, cb)]
    ELSE IF J.st[p] = "fulfilled"
        THEN [J EXCEPT !.mq = Append(@, [aw |-> cb, val |-> J.val[p]])]
    ELSE J

(* promise_base and promise_type *)

\* promise_base::get_return_object (coroutine.h:13-19): the Promise
\* constructor runs the callback at once, which keeps the resolve function;
\* the new future is returned.
get_return_object(J) ==
    [js |-> NewPromise(J, RetPromise), resolve |-> RetPromise,
     future |-> RetPromise]

\* promise_base::initial_suspend, final_suspend (coroutine.h:21-27)
initial_suspend == "suspend_never"
final_suspend == "suspend_never"

\* A plausible slip: the return does not reach the resolve function.
return_value_unresolved(J, resolve, v) == J

\* promise_type::return_value / return_void (coroutine.h:83-85, 92-94,
\* 101-103): resolve->call(nullptr, value), or resolve->call(nullptr).
return_value(J, resolve, v) == PromiseResolve(J, resolve, v)

(* promise_awaiter *)

\* operator co_await and the promise_awaiter constructors (coroutine.h:44-46,
\* 65-67, 107-116).  `value` is not initialized.
promise_awaiter(p) ==
    [promise |-> p, void |-> p \in VoidPromises, state |-> "Created",
     value |-> "uninit", suspends |-> 0, resumes |-> 0, by |-> "none",
     settledAtAwait |-> FALSE]

\* A plausible slip: an already settled future is reported ready.
await_ready_if_settled(p) == js.st[p] = "fulfilled"

\* promise_awaiter_base::await_ready (coroutine.h:34-36)
await_ready(p) == FALSE

\* promise_awaiter::await_suspend (coroutine.h:48-53, 69-73): the callback
\* of awaiter `i` is registered with then.
await_suspend(J, i, p) == PromiseThen(J, p, i)

\* A plausible slip: the callback resumes without storing the value.
then_callback_no_store(a, v) ==
    [a EXCEPT !.state = "Resumed", !.resumes = @ + 1, !.by = "callback"]

\* The callback given to then (coroutine.h:49-52, 70-72): store the value
\* (promise_awaiter<T> only), then handle.resume().
then_callback(a, v) ==
    [a EXCEPT !.value = IF a.void THEN @ ELSE v,
              !.state = "Resumed", !.resumes = @ + 1, !.by = "callback"]

\* promise_awaiter::await_resume (coroutine.h:55-57, 75-76)
await_resume(a) == IF a.void THEN "void" ELSE a.value

InitAsync ==
    /\ \E sp \in {"pending", "fulfilled", "rejected"},
          sq \in {"pending", "fulfilled", "rejected"},
          vp \in Values :
        js = [st |-> [x \in Promises |->
                        IF x = "p" THEN sp ELSE IF x = "q" THEN sq ELSE "none"],
              val |-> [x \in Promises |->
                        IF x = "p" /\ sp = "fulfilled" THEN vp
                        ELSE IF x = "q" /\ sq = "fulfilled" THEN Undefined
                        ELSE "none"],
              re |-> [x \in Promises |-> <<>>],
              mq |-> <<>>,
              calls |-> [x \in Promises |-> 0],
              first |-> [x \in Promises |-> "none"],
              last |-> [x \in Promises |-> "none"],
              extra |-> 0]
    /\ co = [pc |-> "uncalled", next |-> 1, resolve |-> "unset",
             alive |-> FALSE]
    /\ awaiters = <<>>
    /\ got = <<>>
    /\ caller = [pc |-> "start", done |-> 0, future |-> "none"]
    /\ inTask = FALSE
    /\ plan \in Plans
    /\ retVal \in Values \cup {Undefined}

\* The routine suspends or ends: control goes back to whoever resumed it,
\* the caller (who now holds the future) or the job that resumed it.
Yield ==
    IF caller.pc = "incall"
    THEN /\ caller' = [caller EXCEPT !.pc = "after", !.future = RetPromise]
         /\ inTask' = inTask
    ELSE /\ caller' = caller
         /\ inTask' = FALSE

\* The caller calls the routine: the frame is made, get_return_object runs
\* and, initial_suspend being suspend_never, the body starts inside the call.
Call ==
    /\ caller.pc = "start"
    /\ LET r == get_return_object(js) IN
        /\ js' = r.js
        /\ co' = [pc |-> IF initial_suspend = "suspend_never"
                         THEN "running" ELSE "initial",
                  next |-> 1, resolve |-> r.resolve, alive |-> TRUE]
        /\ caller' = IF initial_suspend = "suspend_never"
                     THEN [caller EXCEPT !.pc = "incall"]
                     ELSE [caller EXCEPT !.pc = "after", !.future = r.future]
    /\ UNCHANGED <<awaiters, got, inTask, plan, retVal>>
    /\ UNCHANGED <<normVars, castVars, adaptVars>>

\* The body reaches `co_await f`: the awaiter is constructed
AwaitConstruct ==
    /\ co.pc = "running" /\ co.next <= Len(plan)
    /\ awaiters' = Append(awaiters, promise_awaiter(plan[co.next]))
    /\ co' = [co EXCEPT !.pc = "awaiting"]
    /\ UNCHANGED <<js, got, caller, inTask, plan, retVal>>
    /\ UNCHANGED <<normVars, castVars, adaptVars>>

\* await_ready, then await_suspend and the return to the resumer; a ready
\* awaiter would go on to await_resume without suspending.
AwaitSuspend ==
    /\ co.pc = "awaiting"
    /\ LET i == Len(awaiters)
           a == awaiters[i]
       IN IF await_ready(a.promise)
          THEN /\ awaiters' = [awaiters EXCEPT ![i] =
                                  [a EXCEPT !.state = "Resumed", !.by = "inline"]]
               /\ co' = [co EXCEPT !.pc = "resuming"]
               /\ UNCHANGED <<js, caller, inTask>>
          ELSE /\ js' = await_suspend(js, i, a.promise)
               /\ awaiters' = [awaiters EXCEPT ![i] =
                                  [a EXCEPT !.state = "Suspended",
                                            !.suspends = @ + 1,
                                            !.settledAtAwait =
                                                (js.st[a.promise] = "fulfilled")]]
               /\ co' = [co EXCEPT !.pc = "suspended"]
               /\ Yield
    /\ UNCHANGED <<got, plan, retVal>>
    /\ UNCHANGED <<normVars, castVars, adaptVars>>

\* The event loop runs the next microtask job: the callback of an awaiter
RunJob ==
    /\ caller.pc = "end" /\ ~inTask /\ js.mq # <<>>
    /\ LET job == Head(js.mq) IN
        /\ js' = [js EXCEPT !.mq = Tail(@)]
        /\ awaiters' = [awaiters EXCEPT ![job.aw] = then_callback(@, job.val)]
    /\ co' = [co EXCEPT !.pc = "resuming"]
    /\ inTask' = TRUE
    /\ UNCHANGED <<got, caller, plan, retVal>>
    /\ UNCHANGED <<normVars, castVars, adaptVars>>

\* The resumed routine evaluates the await expression; the awaiter is
\* destroyed
AwaitResume ==
    /\ co.pc = "resuming"
    /\ LET i == Len(awaiters) IN
        /\ got' = Append(got, await_resume(awaiters[i]))
        /\ awaiters' = [awaiters EXCEPT ![i].state = "Discarded"]
    /\ co' = [co EXCEPT !.pc = "running", !.next = @ + 1]
    /\ UNCHANGED <<js, caller, inTask, plan, retVal>>
    /\ UNCHANGED <<normVars, castVars, adaptVars>>

\* co_return: return_value or return_void, then final_suspend and the end of
\* the frame
Return ==
    /\ co.pc = "running" /\ co.next > Len(plan)
    /\ js' = return_value(js, co.resolve, retVal)
    /\ co' = [co EXCEPT !.pc = "done",
                        !.alive = (final_suspend # "suspend_never")]
    /\ Yield
    /\ UNCHANGED <<awaiters, got, plan, retVal>>
    /\ UNCHANGED <<normVars, castVars, adaptVars>>

\* A statement of the caller's section after the call
CallerStatement ==
    /\ caller.pc = "after" /\ caller.done < CallerStmts
    /\ caller' = [caller EXCEPT !.done = @ + 1]
    /\ UNCHANGED <<js, co, awaiters, got, inTask, plan, retVal>>
    /\ UNCHANGED <<normVars, castVars, adaptVars>>

\* A statement of the caller's section that fulfils a foreign future
CallerSettles ==
    /\ caller.pc = "after" /\ caller.done < CallerStmts
    /\ \E f \in Foreign : \E v \in SettleValues(f) :
        /\ js.st[f] = "pending"
        /\ js' = PromiseResolve(js, f, v)
    /\ caller' = [caller EXCEPT !.done = @ + 1]
    /\ UNCHANGED <<co, awaiters, got, inTask, plan, retVal>>
    /\ UNCHANGED <<normVars, castVars, adaptVars>>

\* The caller's synchronous section ends
CallerEnd ==
    /\ caller.pc = "after" /\ caller.done = CallerStmts
    /\ caller' = [caller EXCEPT !.pc = "end"]
    /\ UNCHANGED <<js, co, awaiters, got, inTask, plan, retVal>>
    /\ UNCHANGED <<normVars, castVars, adaptVars>>

Idle == caller.pc = "end" /\ ~inTask /\ js.mq = <<>>

\* A host task fulfils a foreign future
HostSettles ==
    /\ Idle
    /\ \E f \in Foreign : \E v \in SettleValues(f) :
        /\ js.st[f] = "pending"
        /\ js' = PromiseResolve(js, f, v)
    /\ UNCHANGED <<co, awaiters, got, caller, inTask, plan, retVal>>
    /\ UNCHANGED <<normVars, castVars, adaptVars>>

\* A host task rejects a foreign future
HostRejects ==
    /\ Idle
    /\ \E f \in Foreign :
        /\ js.st[f] = "pending"
        /\ js' = PromiseReject(js, f)
    /\ UNCHANGED <<co, awaiters, got, caller, inTask, plan, retVal>>
    /\ UNCHANGED <<normVars, castVars, adaptVars>>

\* The resolve function of the produced future is invoked once more
ResolveAgain ==
    /\ Idle
    /\ js.calls[RetPromise] >= 1 /\ js.extra < MaxExtraResolves
    /\ \E v \in Values \cup {Undefined} :
        js' = [PromiseResolve(js, RetPromise, v) EXCEPT !.extra = @ + 1]
    /\ UNCHANGED <<co, awaiters, got, caller, inTask, plan, retVal>>
    /\ UNCHANGED <<normVars, castVars, adaptVars>>

Next ==
    \/ Call
    \/ AwaitConstruct
    \/ AwaitSuspend
    \/ RunJob
    \/ AwaitResume
    \/ Return
    \/ CallerStatement
    \/ CallerSettles
    \/ CallerEnd
    \/ HostSettles
    \/ HostRejects
    \/ ResolveAgain

Init == InitAsync /\ ParkNorm /\ ParkCast /\ ParkAdapt

Spec == Init /\ [][Next]_vars

Resumed(a) == a.state \in {"Resumed", "Discarded"}

\* C1: an await always suspends the routine, and the routine is resumed only
\* from the callback registered with then; so once the continuation after an
\* await has run, even of a future that was already settled when awaited,
\* every statement of the caller's synchronous section has been executed.
C1_AwaitAlwaysDefers ==
    \A i \in DOMAIN awaiters :
        LET a == awaiters[i] IN
        /\ a.state # "Created" => a.suspends = 1
        /\ Resumed(a) =>
              /\ a.by = "callback"
              /\ caller.pc = "end"
              /\ caller.done = CallerStmts

\* C1 witness: the first await was of an already settled future, and its
\* continuation has run.
C1_Witness ==
    /\ Len(awaiters) >= 1
    /\ awaiters[1].settledAtAwait
    /\ awaiters[1].state = "Discarded"
    /\ Len(got) >= 1

\* Invocations of the produced future's resolve function by the routine
RoutineResolves == js.calls[RetPromise] - js.extra

\* C2: for a routine without await expressions, the future is in the caller's
\* hands when the call returns, it is pending as long as the routine's return
\* has not invoked resolve, resolve is invoked exactly once by the run, and
\* from then on the future is fulfilled with the returned value.
C2_ProducerSettlesOnReturn ==
    plan = <<>> =>
        /\ caller.pc \in {"after", "end"} =>
              /\ caller.future = RetPromise
              /\ co.pc = "done"
        /\ (co.pc # "uncalled" /\ RoutineResolves = 0) =>
              js.st[RetPromise] = "pending"
        /\ RoutineResolves <= 1
        /\ co.pc = "done" <=> RoutineResolves = 1
        /\ RoutineResolves = 1 =>
              /\ js.st[RetPromise] = "fulfilled"
              /\ js.val[RetPromise] = retVal

\* C2 witness: the call of a routine without awaits has returned to the
\* caller, who holds a future fulfilled with the returned value.
C2_Witness ==
    /\ plan = <<>>
    /\ caller.pc = "after" /\ caller.done = 0
    /\ caller.future = RetPromise
    /\ js.st[RetPromise] = "fulfilled"
    /\ js.val[RetPromise] = retVal
    /\ retVal = "y"

\* C3: an awaiter is suspended once and resumed at most once, never
\* suspended again after its resumption, and resumed exactly once when its
\* future is fulfilled; the value delivered is stored before the resume, so
\* the await expression evaluates to the value the future was settled with.
C3_AwaiterLifecycle ==
    \A i \in DOMAIN awaiters :
        LET a == awaiters[i] IN
        /\ a.suspends <= 1 /\ a.resumes <= 1
        /\ a.state = "Created" => (a.suspends = 0 /\ a.resumes = 0)
        /\ a.state = "Suspended" => (a.suspends = 1 /\ a.resumes = 0)
        /\ Resumed(a) =>
              /\ a.suspends = 1 /\ a.resumes = 1
              /\ js.st[a.promise] = "fulfilled"
              /\ ~a.void => a.value = js.val[a.promise]
        /\ a.state = "Discarded" =>
              /\ i \in DOMAIN got
              /\ got[i] = IF a.void THEN "void" ELSE js.val[a.promise]
        /\ (Idle /\ a.state = "Suspended") =>
              js.st[a.promise] # "fulfilled"

\* C3 witness: the second awaiter of a routine was resumed with the value
\* "y" and discarded.
C3_Witness ==
    /\ Len(awaiters) = 2
    /\ awaiters[1].state = "Discarded"
    /\ awaiters[2].state = "Discarded"
    /\ awaiters[2].promise = "p"
    /\ got[2] = "y"

\* C9: however often the resolve function of a produced future is invoked,
\* the future stays fulfilled with the value of the first invocation.
C9_ResolveWriteOnce ==
    js.calls[RetPromise] >= 1 =>
        /\ js.st[RetPromise] = "fulfilled"
        /\ js.val[RetPromise] = js.first[RetPromise]

\* C9 witness: resolve was invoked a second time with another value.
C9_Witness ==
    /\ js.calls[RetPromise] >= 2
    /\ js.last[RetPromise] # js.first[RetPromise]
    /\ js.val[RetPromise] = js.first[RetPromise]

=============================================================================
